---- MODULE Spec2Model ----
(***************************************************************************)
(* Model of the ESP32 ultrasonic detector (code_FFt.ino) and of the        *)
(* collector's POST /api/detections handler (back-end-nodejs/server.js).   *)
(*                                                                         *)
(* Numbers.  A spectrum magnitude is an integer count of 1/MagUnit.  A     *)
(* frequency is the numerator of a fraction over SAMPLES (peakFreq is      *)
(* i * SAMPLING_FREQ / SAMPLES).  A line of the log file is the tuple of   *)
(* its comma-separated fields; the line "\r" is the one-field line CRLine. *)
(* The text of a magnitude printed with two decimals is its count of       *)
(* hundredths.                                                             *)
(***************************************************************************)
EXTENDS Integers, Sequences, FiniteSets, TLC

\* ------------------------------------------------------------------ bounds
MaxIter == 4
\* in the run whose environment recovers: iterations of loop() before the
\* recovery, and iterations left after them
BadIters == 2
GoodIters == 2

\* ------------------------------------------------------- program constants
SAMPLES == 2048
BUFFER_SIZE == 1024
SAMPLING_FREQ == 44100
TARGET_FREQ_MIN == 17700
TARGET_FREQ_MAX == 18300
MAGNITUDE_THRESHOLD == 1000
numBackendUrls == 4
\* the number of initialisers of backendUrls[] (three more are commented out)
backendUrlsLen == 1
connectionTimeout == 5000
serverCheckInterval == 30000
maxStoredDetections == 100
ScaleFactor == 5000
Gate1Factor == 1000
SendThreshold == 20000
MaxDrainFails == 3
LoopDelay == 100
SetupDelay == 1000
WifiCheckInterval == 60000
HTTP_CREATED == 201
HTTP_BAD_REQUEST == 400
HTTP_SERVER_ERROR == 500
HTTP_OK == 200
HTTPC_ERROR_CONNECTION_REFUSED == -1
MagUnit == 10000

VARIABLES pc, now, iter, wifiConnected, fileExists, dataFile,
          spiffsAvailable, storedDetections, serverAvailable,
          lastServerCheckTime, currentUrlIndex, buffer_pos, lastWifiCheck, ev,
          lastOkCheck, band

vars == <<pc, now, iter, wifiConnected, fileExists, dataFile,
          spiffsAvailable, storedDetections, serverAvailable,
          lastServerCheckTime, currentUrlIndex, buffer_pos, lastWifiCheck, ev,
          lastOkCheck, band>>

\* ------------------------------------------------------------ conversions
\* millis() - t in unsigned long arithmetic; millis() does not wrap within the
\* horizon of the model (49 days), so t <= millis() and no borrow occurs
SubU32(a, b) == a - b

\* String(frequency, 0): the frequency printed with no decimals (rounded)
StringF0(f) == (2 * f + SAMPLES) \div (2 * SAMPLES)

\* String(magnitude): the magnitude printed with two decimals
StringD2(m) == m * 100

\* String::toDouble of a frequency field and of a magnitude field
FreqToDouble(txt) == txt * SAMPLES
MagToDouble(txt) == txt \div 100

CRLine == <<13>>

\* dataLine of storeDetectionLocally without its trailing "\n"
DataLine(frequency, magnitude, t) == <<StringF0(frequency), StringD2(magnitude), t>>

\* the JSON payload of sendSingleDetection / sendDetectionToBackend
Payload(frequency, magnitude, t) ==
  [frequency |-> StringF0(frequency), magnitude |-> StringD2(magnitude), timestamp |-> t]

\* dataFile.println(dataLine): the line, its own "\n", then println's "\r\n"
Println(lines, line) == Append(Append(lines, line), CRLine)

\* line.indexOf(',') > 0 && line.indexOf(',', firstComma + 1) > 0
HasTwoCommas(line) == Len(line) >= 3

\* the data entries of a log, oldest first
DataEntries(lines) == SelectSeq(lines, HasTwoCommas)

\* the while loop of countLinesInFile over the lines lo .. hi: the passes run
\* in order, split in halves to keep the nesting low
RECURSIVE CountLoop(_, _, _, _)
CountLoop(lines, st, lo, hi) ==
  IF lo > hi THEN st
  ELSE IF lo = hi
         THEN IF Len(lines[lo]) > 0 THEN [st EXCEPT !.count = @ + 1] ELSE st
  ELSE LET mid == (lo + hi) \div 2
           left == CountLoop(lines, st, lo, mid)
       IN IF left.stop THEN left ELSE CountLoop(lines, left, mid + 1, hi)

\* countLinesInFile: the lines of length > 0
countLinesInFile(lines) ==
  CountLoop(lines, [count |-> 0, stop |-> FALSE], 1, Len(lines)).count

\* ------------------------------------------------------------- collector
\* a JSON value of a request body: its type, and n, the number, the length
\* of the string or the truth value (1 for true); a missing field is undefined
JsNumber(n) == [type |-> "number", n |-> n]
JsUndefined == [type |-> "undefined", n |-> 0]
JsDateNow == [type |-> "date", n |-> 0]

\* !x of JavaScript: undefined, null, 0, "" and false are falsy
Falsy(x) == x = 0
JsFalsy_missingOnly(j) == j.type \in {"undefined", "null"}
JsFalsy(j) == j.type \in {"undefined", "null"} \/ Falsy(j.n)

\* server.js app.post('/api/detections'): !frequency || !magnitude -> 400,
\* an exception in the handler -> 500, otherwise 201 with the detection
\* echoed (timestamp || Date.now())
PostDetections(req, throws) ==
  IF throws
    THEN [status |-> HTTP_SERVER_ERROR, required |-> <<>>, detection |-> <<>>]
  ELSE IF JsFalsy(req.frequency) \/ JsFalsy(req.magnitude)
    THEN [status |-> HTTP_BAD_REQUEST, required |-> <<"frequency", "magnitude">>,
          detection |-> <<>>]
  ELSE [status |-> HTTP_CREATED, required |-> <<>>,
        detection |-> <<req.frequency, req.magnitude,
                        IF JsFalsy(req.timestamp) THEN JsDateNow
                        ELSE req.timestamp>>]

\* server.js app.get('/api/health')
GetHealth == [status |-> HTTP_OK]

\* the status the collector answers to a payload of the sketch
Collector(body, throws) ==
  PostDetections([frequency |-> JsNumber(body.frequency),
                  magnitude |-> JsNumber(body.magnitude),
                  timestamp |-> JsNumber(body.timestamp)], throws).status

\* http.POST(payload): the status the collector answers, or a negative
\* HTTPClient error when the request does not get through
Nets == {"ok", "throws", "refused"}
HttpPost(body, net) ==
  IF net = "refused" THEN HTTPC_ERROR_CONNECTION_REFUSED
  ELSE Collector(body, net = "throws")

\* httpCheck.GET() on the health URL of endpoint i
HttpGet(up) == IF up THEN GetHealth.status ELSE HTTPC_ERROR_CONNECTION_REFUSED

\* bool success = (httpResponseCode > 0)
PostSucceeded(code) == code > 0

\* ------------------------------------------------------------ environment
Endpoints == 0 .. (numBackendUrls - 1)

\* which candidate endpoints answer a health GET during one probe.  Only
\* index 0 is an element of backendUrls[]: the read of backendUrls[i] for
\* i >= backendUrlsLen is out of bounds, and the GET built from it may get any
\* answer, so every index answers or not as the environment chooses
UpMaps == {[i \in Endpoints |-> i >= k] : k \in {0, 1, numBackendUrls}}

\* outcome of the file operations of one call: everything works, open(.., "a")
\* fails, or println writes nothing ("trimfail", open(.., "w") failing in the
\* trim right after the append went through, is not offered)
Ios == {"ok", "openfail", "writefail"}

\* how the collector answers the POSTs of one drain: the POSTs whose number is
\* in at get the outcome net, the others get through and are accepted
Patterns ==
  {[at |-> {}, net |-> "refused"], [at |-> {2}, net |-> "refused"],
   [at |-> {2}, net |-> "throws"], [at |-> {1, 2, 3, 4}, net |-> "refused"],
   [at |-> {1, 3, 5, 7}, net |-> "refused"]}

\* the events of one step (history, not program state)
NoEvents ==
  [op |-> "none", reads |-> <<>>, window |-> FALSE, bins |-> <<>>,
   peak |-> <<>>, logged |-> FALSE, delivered |-> <<>>,
   probes |-> <<>>, posts |-> <<>>, stores |-> <<>>, drains |-> <<>>,
   trims |-> <<>>, reconnect |-> FALSE, linkRead |-> FALSE, served |-> <<>>,
   checks |-> <<>>]

\* the globals of the sketch, the events of the call, and lastOkCheck, the
\* time of the last probe an endpoint answered (history, -1 before the first);
\* band is the pair of macros TARGET_FREQ_MIN, TARGET_FREQ_MAX of the build
G ==
  [now |-> now, wifiConnected |-> wifiConnected, fileExists |-> fileExists,
   dataFile |-> dataFile, spiffsAvailable |-> spiffsAvailable,
   storedDetections |-> storedDetections, serverAvailable |-> serverAvailable,
   lastServerCheckTime |-> lastServerCheckTime,
   currentUrlIndex |-> currentUrlIndex, buffer_pos |-> buffer_pos,
   lastWifiCheck |-> lastWifiCheck, ev |-> NoEvents,
   lastOkCheck |-> lastOkCheck, band |-> band]

\* delay(ms) of setup() and loop().  The calls of one iteration read one
\* millis(): the time its requests and its shorter delays take is part of the
\* wait of the next read
Delay(g, ms) == [g EXCEPT !.now = @ + ms]

\* WiFi.status() == WL_CONNECTED: the environment's answer, link, the first
\* time a call asks, and what that call has seen since
WiFiStatus(g, link) ==
  IF g.ev.linkRead THEN g ELSE [g EXCEPT !.wifiConnected = link, !.ev.linkRead = TRUE]

\* ------------------------------------------------------ connectivity monitor
\* the for loop of checkServerAvailability without its break
RECURSIVE ProbeLoop_all(_, _, _)
ProbeLoop_all(g, up, i) ==
  IF i >= numBackendUrls THEN g
  ELSE LET checkCode == HttpGet(up[i])
           g1 == [g EXCEPT !.ev.probes = Append(@, [i |-> i, code |-> checkCode])]
       IN ProbeLoop_all(IF checkCode > 0
                          THEN [g1 EXCEPT !.currentUrlIndex = i,
                                          !.serverAvailable = TRUE,
                                          !.lastOkCheck = g.now]
                          ELSE g1, up, i + 1)

\* the for loop of checkServerAvailability from index i on
RECURSIVE ProbeLoop(_, _, _)
ProbeLoop(g, up, i) ==
  IF i >= numBackendUrls THEN g
  ELSE LET checkCode == HttpGet(up[i])
           g1 == [g EXCEPT !.ev.probes = Append(@, [i |-> i, code |-> checkCode])]
       IN IF checkCode > 0
            THEN [g1 EXCEPT !.currentUrlIndex = i, !.serverAvailable = TRUE,
                            !.lastOkCheck = g.now]
            ELSE ProbeLoop(g1, up, i + 1)

\* the rate limit of checkServerAvailability
UseCached_never(g) == FALSE
UseCached(g) ==
  g.serverAvailable /\ SubU32(g.now, g.lastServerCheckTime) < serverCheckInterval

\* ev.checks records each call: whether it answered from the cache, the
\* value it returned and currentUrlIndex before and after
checkServerAvailability(g, up) ==
  LET r == IF UseCached(g) THEN g
           ELSE ProbeLoop([g EXCEPT !.lastServerCheckTime = g.now,
                                    !.serverAvailable = FALSE], up, 0)
  IN [r EXCEPT !.ev.checks = Append(@, [cached |-> UseCached(g),
                                        was |-> g.currentUrlIndex,
                                        index |-> r.currentUrlIndex,
                                        available |-> r.serverAvailable])]

\* --------------------------------------------------------------- local queue
\* the lines left after skipping n lines (readStringUntil at end of file
\* reads nothing)
SkipLines(lines, n) ==
  IF n <= 0 THEN lines
  ELSE IF n >= Len(lines) THEN <<>>
  ELSE SubSeq(lines, n + 1, Len(lines))

\* int linesToSkip = storedDetections - maxStoredDetections
LinesToSkip(g) == g.storedDetections - maxStoredDetections

trimDataFile(g, io) ==
  IF ~g.spiffsAvailable THEN g
  ELSE IF ~g.fileExists THEN g
  ELSE IF io = "trimfail" THEN g
  ELSE [g EXCEPT !.dataFile = SkipLines(g.dataFile, LinesToSkip(g)),
                 !.storedDetections = maxStoredDetections,
                 !.ev.trims = Append(@, [before |-> g.dataFile,
                                         count |-> g.storedDetections])]

\* if(storedDetections > maxStoredDetections)
NeedsTrim(g) == g.storedDetections > maxStoredDetections

\* storeDetectionLocally without its test of spiffsAvailable
storeDetectionLocally_always(g, frequency, magnitude, io) ==
  LET line == DataLine(frequency, magnitude, g.now)
      called == [g EXCEPT !.ev.stores = Append(@, [line |-> line, io |-> io])]
  IN IF io = "openfail" THEN called
     ELSE LET g1 == IF io = "writefail"
                      THEN [called EXCEPT !.fileExists = TRUE]
                      ELSE [called EXCEPT !.fileExists = TRUE,
                                          !.dataFile = Println(@, line),
                                          !.storedDetections = @ + 1]
          IN IF NeedsTrim(g1) THEN trimDataFile(g1, io) ELSE g1

storeDetectionLocally(g, frequency, magnitude, io) ==
  LET line == DataLine(frequency, magnitude, g.now)
      called == [g EXCEPT !.ev.stores = Append(@, [line |-> line, io |-> io])]
  IN IF ~g.spiffsAvailable THEN called
     ELSE IF io = "openfail" THEN called
     ELSE LET g1 == IF io = "writefail"
                      THEN [called EXCEPT !.fileExists = TRUE]
                      ELSE [called EXCEPT !.fileExists = TRUE,
                                          !.dataFile = Println(@, line),
                                          !.storedDetections = @ + 1]
          IN IF NeedsTrim(g1) THEN trimDataFile(g1, io) ELSE g1

\* ---------------------------------------------------------- delivery manager
\* sendSingleDetection: the globals afterwards and the value returned
sendSingleDetection(g, frequency, magnitude, net) ==
  IF ~g.serverAvailable THEN [g |-> g, success |-> FALSE]
  ELSE LET payload == Payload(frequency, magnitude, g.now)
           httpResponseCode == HttpPost(payload, net)
       IN [g |-> [g EXCEPT !.ev.posts =
                     Append(@, [kind |-> "drain", body |-> payload,
                                code |-> httpResponseCode])],
           success |-> PostSucceeded(httpResponseCode)]

\* if(failCount > 3) break
StopDrain(failCount) == failCount > MaxDrainFails

\* one pass of the while loop of sendStoredData, on line i; st.stop is set
\* by the break
DrainStep(st, i, pat) ==
  LET line == st.g.dataFile[i]
  IN IF Len(line) > 0 /\ HasTwoCommas(line)
            THEN LET frequency == FreqToDouble(line[1])
                     magnitude == MagToDouble(line[2])
                     net == IF (st.sent + 1) \in pat.at THEN pat.net ELSE "ok"
                     r == sendSingleDetection(st.g, frequency, magnitude, net)
                 IN IF r.success
                      THEN [st EXCEPT !.g = r.g,
                                      !.successCount = @ + 1, !.sent = @ + 1]
                      ELSE IF StopDrain(st.failCount + 1)
                             THEN [st EXCEPT !.g = r.g, !.failCount = @ + 1,
                                             !.sent = @ + 1, !.stop = TRUE]
                             ELSE [st EXCEPT !.g = r.g,
                                             !.failCount = @ + 1, !.sent = @ + 1]
            ELSE st

\* the while loop of sendStoredData over the lines lo .. hi: the passes run in
\* order until the break, split in halves to keep the nesting low
RECURSIVE DrainLines(_, _, _, _)
DrainLines(st, pat, lo, hi) ==
  IF lo > hi THEN st
  ELSE IF lo = hi THEN DrainStep(st, lo, pat)
  ELSE LET mid == (lo + hi) \div 2
           left == DrainLines(st, pat, lo, mid)
       IN IF left.stop THEN left ELSE DrainLines(left, pat, mid + 1, hi)

\* the while loop of sendStoredData; sent counts the POSTs
DrainLoop(g, pat) ==
  DrainLines([g |-> g, successCount |-> 0, failCount |-> 0, sent |-> 0,
              stop |-> FALSE], pat, 1, Len(g.dataFile))

\* if(successCount > 0) { ... if(failCount == 0) { remove, count = 0 } }
ClearAfterDrain_never(successCount, failCount) == FALSE
ClearAfterDrain_anySuccess(successCount, failCount) == successCount > 0
ClearAfterDrain(successCount, failCount) == successCount > 0 /\ failCount = 0

sendStoredData_skip(g, pat) == g
sendStoredData(g, pat) ==
  IF ~g.serverAvailable \/ ~g.spiffsAvailable THEN g
  ELSE IF ~g.fileExists THEN g
  ELSE LET r == DrainLoop(g, pat)
           cleared == ClearAfterDrain(r.successCount, r.failCount)
           g1 == [r.g EXCEPT !.ev.drains =
                    Append(@, [before |-> g.dataFile,
                               count |-> g.storedDetections,
                               first |-> Len(g.ev.posts) + 1,
                               successCount |-> r.successCount,
                               failCount |-> r.failCount])]
       IN IF cleared
            THEN [g1 EXCEPT !.fileExists = FALSE, !.dataFile = <<>>,
                            !.storedDetections = 0]
            ELSE g1

\* the branch of sendDetectionToBackend taken after a failed POST
AfterFailedPost_drop(g, frequency, magnitude, env) ==
  LET g2 == [g EXCEPT !.serverAvailable = FALSE,
                      !.wifiConnected = env.linkAfter]
  IN IF ~g2.wifiConnected
       THEN [g2 EXCEPT !.ev.reconnect = TRUE]
       ELSE g2
AfterFailedPost_keepAvailable(g, frequency, magnitude, env) ==
  LET g1 == storeDetectionLocally(g, frequency, magnitude, env.io)
      g2 == [g1 EXCEPT !.wifiConnected = env.linkAfter]
  IN IF ~g2.wifiConnected
       THEN [g2 EXCEPT !.ev.reconnect = TRUE]
       ELSE g2
AfterFailedPost(g, frequency, magnitude, env) ==
  LET g1 == storeDetectionLocally(g, frequency, magnitude, env.io)
      g2 == [g1 EXCEPT !.serverAvailable = FALSE,
                       !.wifiConnected = env.linkAfter]
  IN IF ~g2.wifiConnected
       THEN [g2 EXCEPT !.ev.reconnect = TRUE]
       ELSE g2

\* the branch of sendDetectionToBackend taken without a link
NoLink_probe(g, frequency, magnitude, env) ==
  storeDetectionLocally(checkServerAvailability(g, env.up), frequency,
                        magnitude, env.io)
NoLink(g, frequency, magnitude, env) ==
  storeDetectionLocally(g, frequency, magnitude, env.io)

\* the branch of sendDetectionToBackend taken when no server is available
NoServer_post(g, frequency, magnitude, env) ==
  storeDetectionLocally(
    [g EXCEPT !.ev.posts =
       Append(@, [kind |-> "live",
                  body |-> Payload(frequency, magnitude, g.now),
                  code |-> HttpPost(Payload(frequency, magnitude, g.now), env.net)])],
    frequency, magnitude, env.io)
NoServer(g, frequency, magnitude, env) ==
  storeDetectionLocally(g, frequency, magnitude, env.io)

sendDetectionToBackend(g, frequency, magnitude, env) ==
  LET gl == WiFiStatus(g, env.link)
      g0 == [gl EXCEPT !.ev.delivered =
               Append(@, [frequency |-> frequency, magnitude |-> magnitude,
                          link |-> gl.wifiConnected,
                          available |-> g.serverAvailable,
                          lastCheck |-> g.lastServerCheckTime,
                          lastOk |-> g.lastOkCheck,
                          now |-> g.now,
                          count |-> g.storedDetections,
                          file |-> g.dataFile])]
  IN IF ~g0.wifiConnected THEN NoLink(g0, frequency, magnitude, env)
     ELSE LET g1 == checkServerAvailability(g0, env.up)
          IN IF ~g1.serverAvailable THEN NoServer(g1, frequency, magnitude, env)
             ELSE LET payload == Payload(frequency, magnitude, g1.now)
                      httpResponseCode == HttpPost(payload, env.net)
                      g2 == [g1 EXCEPT !.ev.posts =
                               Append(@, [kind |-> "live", body |-> payload,
                                          code |-> httpResponseCode])]
                  IN IF httpResponseCode > 0
                       THEN IF g2.storedDetections > 0
                              THEN sendStoredData(g2, env.pat)
                              ELSE g2
                       ELSE AfterFailedPost(g2, frequency, magnitude, env)

\* -------------------------------------------------------------- acquisition
\* readAudioSamples without the reset of buffer_pos
readAudioSamples_noReset(g, readOk) ==
  IF ~readOk
    THEN [g |-> [g EXCEPT !.ev.reads = Append(@, [ok |-> FALSE, full |-> FALSE])],
          full |-> FALSE]
  ELSE LET room == SAMPLES - g.buffer_pos
           pos == g.buffer_pos + (IF BUFFER_SIZE < room THEN BUFFER_SIZE ELSE room)
       IN [g |-> [g EXCEPT !.buffer_pos = pos,
                           !.ev.reads = Append(@, [ok |-> TRUE, full |-> pos >= SAMPLES])],
           full |-> pos >= SAMPLES]

\* readAudioSamples: the globals afterwards and the value returned; readOk is
\* result == ESP_OK && bytes_read == sizeof(samples_buffer)
readAudioSamples(g, readOk) ==
  IF ~readOk
    THEN [g |-> [g EXCEPT !.ev.reads = Append(@, [ok |-> FALSE, full |-> FALSE])],
          full |-> FALSE]
  ELSE LET room == SAMPLES - g.buffer_pos
           pos == g.buffer_pos + (IF BUFFER_SIZE < room THEN BUFFER_SIZE ELSE room)
       IN IF pos >= SAMPLES
            THEN [g |-> [g EXCEPT !.buffer_pos = 0,
                                  !.ev.reads = Append(@, [ok |-> TRUE, full |-> TRUE])],
                  full |-> TRUE]
            ELSE [g |-> [g EXCEPT !.buffer_pos = pos,
                                  !.ev.reads = Append(@, [ok |-> TRUE, full |-> FALSE])],
                  full |-> FALSE]

\* ----------------------------------------------------------------- detector
\* round((TARGET_FREQ * SAMPLES) / SAMPLING_FREQ): the operands are ints, so
\* the quotient is an int division and round() gets a whole number
BinOf(freq) == (freq * SAMPLES) \div SAMPLING_FREQ
minBin == BinOf(TARGET_FREQ_MIN)
maxBin == BinOf(TARGET_FREQ_MAX)
Band == minBin .. maxBin

\* if (maxBin >= SAMPLES/2) return, for the maxBin of the build
NyquistGuard_strict(hi) == hi > SAMPLES \div 2
NyquistGuard(hi) == hi >= SAMPLES \div 2

\* the for loop of analyzeTargetRange from bin i to bin hi: the peak so far
RECURSIVE Scan(_, _, _, _, _)
Scan(vReal, i, hi, maxMagnitude, peakFreq) ==
  IF i > hi THEN [maxMagnitude |-> maxMagnitude, peakFreq |-> peakFreq]
  ELSE IF vReal[i] > maxMagnitude
         THEN Scan(vReal, i + 1, hi, vReal[i], i * SAMPLING_FREQ)
         ELSE Scan(vReal, i + 1, hi, maxMagnitude, peakFreq)

\* (int)(maxMagnitude * 5000)
ScaledMagnitude(maxMagnitude) == (maxMagnitude * ScaleFactor) \div MagUnit

\* (int)(maxMagnitude * 1000) >= MAGNITUDE_THRESHOLD
Gate1(maxMagnitude) ==
  (maxMagnitude * Gate1Factor) \div MagUnit >= MAGNITUDE_THRESHOLD

\* scaledMagnitude >= 20000
Gate2_low(scaledMagnitude) == scaledMagnitude >= MAGNITUDE_THRESHOLD
Gate2(scaledMagnitude) == scaledMagnitude >= SendThreshold

\* g.band holds TARGET_FREQ_MIN and TARGET_FREQ_MAX of the build
analyzeTargetRange(g, vReal, env) ==
  IF NyquistGuard(BinOf(g.band[2]))
    THEN [g EXCEPT !.ev.bins = <<[minBin |-> BinOf(g.band[1]),
                                  maxBin |-> BinOf(g.band[2])]>>]
  ELSE LET peak == Scan(vReal, BinOf(g.band[1]), BinOf(g.band[2]), 0, 0)
           scaledMagnitude == ScaledMagnitude(peak.maxMagnitude)
           g0 == [g EXCEPT !.ev.bins = <<[minBin |-> BinOf(g.band[1]),
                                          maxBin |-> BinOf(g.band[2])]>>,
                           !.ev.peak = <<[maxMagnitude |-> peak.maxMagnitude,
                                          peakFreq |-> peak.peakFreq,
                                          scaledMagnitude |-> scaledMagnitude]>>]
       IN IF Gate1(peak.maxMagnitude)
            THEN LET g1 == [g0 EXCEPT !.ev.logged = TRUE]
                 IN IF Gate2(scaledMagnitude)
                      THEN sendDetectionToBackend(g1, peak.peakFreq,
                                                  scaledMagnitude, env)
                      ELSE g1
            ELSE g0

\* --------------------------------------------------------------------- loop
\* the periodic WiFi check of loop()
wifiCheck(g, env) ==
  IF SubU32(g.now, g.lastWifiCheck) > WifiCheckInterval
    THEN LET g1 == WiFiStatus([g EXCEPT !.lastWifiCheck = g.now], env.link)
         IN IF ~g1.wifiConnected
              THEN [g1 EXCEPT !.ev.reconnect = TRUE]
              ELSE g1
    ELSE g

loop(g, env) ==
  LET r == readAudioSamples(Delay(g, env.wait), env.readOk)
      g1 == IF r.full
              THEN analyzeTargetRange([r.g EXCEPT !.ev.window = TRUE],
                                      env.vReal, env)
              ELSE r.g
  IN Delay(wifiCheck(g1, env), LoopDelay)

\* -------------------------------------------------------------------- setup
setup(g, env) ==
  LET g1 == Delay(g, SetupDelay)
      g2 == IF env.mount = "ok" THEN [g1 EXCEPT !.spiffsAvailable = TRUE]
            ELSE IF env.mount = "formatted"
              THEN [g1 EXCEPT !.spiffsAvailable = TRUE, !.fileExists = FALSE,
                              !.dataFile = <<>>]
              ELSE [g1 EXCEPT !.spiffsAvailable = FALSE]
      g3 == IF g2.spiffsAvailable /\ g2.fileExists
              THEN [g2 EXCEPT !.storedDetections = countLinesInFile(g2.dataFile)]
              ELSE g2
      g4 == WiFiStatus(g3, env.link)
  IN IF g4.wifiConnected
       THEN LET g5 == checkServerAvailability(g4, env.up)
            IN IF g5.serverAvailable /\ g5.spiffsAvailable
                  /\ g5.storedDetections > 0
                 THEN sendStoredData(g5, env.pat)
                 ELSE g5
       ELSE g4

\* ------------------------------------------------------------------- inputs
\* magnitudes of the band peak, in 1/MagUnit: around gate 1 and around gate 2
PeakMags == {MagUnit - 1, MagUnit, 4 * MagUnit - 1, 4 * MagUnit}

\* the spectra offered to the detector: one peak in the band over a floor,
\* at the first bin of the band or at its last
Peak(lo, hi, b, m) == [i \in lo .. hi |-> IF i = b THEN m ELSE 1]
Spectra(lo, hi) ==
  {Peak(lo, hi, IF m \in {MagUnit, 4 * MagUnit} THEN hi ELSE lo, m) : m \in PeakMags}

Mounts == {"ok", "formatted", "failed"}

\* how long a successful i2s_read blocks (portMAX_DELAY): no time to speak
\* of, or a full check interval
Waits == {0, serverCheckInterval}

\* what the environment does during one call; Env0 is the environment of a call
\* that asks it nothing
Quiet == [i \in 0 .. (SAMPLES - 1) |-> 1]
AllDown == [i \in Endpoints |-> FALSE]
Env0 ==
  [readOk |-> FALSE, vReal |-> Quiet, up |-> AllDown, net |-> "ok",
   pat |-> [at |-> {1, 2, 3, 4}, net |-> "refused"], io |-> "ok", linkAfter |-> TRUE,
   mount |-> "ok", wait |-> 0, link |-> wifiConnected]

\* handler h, "setup" or "loop", called from the current state
Call(h, e) == IF h = "setup" THEN setup(G, e) ELSE loop(G, e)

\* what a call may ask its environment, in the order it asks
Questions == <<"window", "link", "probe", "post", "store", "drain">>

\* whether a call with the events v has asked question q
Asked(v, q) ==
  CASE q = "window" -> v.window
    [] q = "link" -> v.linkRead
    [] q = "probe" -> v.probes # <<>>
    [] q = "post" -> v.posts # <<>> /\ v.posts[1].kind = "live"
    [] q = "store" -> v.stores # <<>>
    [] q = "drain" -> v.drains # <<>>

\* environment e with each answer the environment can give to question q (the
\* link is read again after a failed POST only)
Replies(e, v, q) ==
  CASE q = "window" -> {[e EXCEPT !.vReal = x] : x \in Spectra(BinOf(band[1]), BinOf(band[2]))}
    [] q = "link" -> {[e EXCEPT !.link = b] : b \in BOOLEAN}
    [] q = "probe" -> {[e EXCEPT !.up = u] : u \in UpMaps}
    [] q = "post" -> {[e EXCEPT !.net = n] : n \in Nets}
    [] q = "store" -> {[e EXCEPT !.io = o, !.linkAfter = b] :
                         o \in Ios,
                         b \in IF v.posts # <<>> THEN BOOLEAN ELSE {TRUE}}
    [] q = "drain" -> {[e EXCEPT !.pat = p] : p \in Patterns}

Refine(e, v, q) == IF Asked(v, q) THEN Replies(e, v, q) ELSE {e}

\* the environments of one call of handler h from the current state, from
\* question k on: each answer is drawn only when the call, given the answers
\* before it, gets to ask for it (a probe, a live POST, a drain, a file write)
RECURSIVE Answers(_, _, _)
Answers(h, E, k) ==
  IF k > Len(Questions) THEN E
  ELSE Answers(h, UNION {Refine(e, Call(h, e).ev, Questions[k]) : e \in E}, k + 1)

SetupEnvs ==
  Answers("setup", {[Env0 EXCEPT !.mount = m] : m \in Mounts}, 1)
LoopEnvs ==
  Answers("loop", {[Env0 EXCEPT !.readOk = TRUE, !.wait = w] : w \in Waits}
                  \cup {Env0}, 1)

\* the log a previous run left behind: no log, or the log of a queue that run
\* filled with maxStoredDetections detections, one every second, each written
\* by storeDetectionLocally
PriorLine(j) == DataLine(minBin * SAMPLING_FREQ, SendThreshold, j * 1000)
PriorLog(k) == [j \in 1 .. 2 * k |-> IF j % 2 = 1 THEN PriorLine((j + 1) \div 2) ELSE CRLine]
PriorCounts == {0, maxStoredDetections}

\* ------------------------------------------------------------- state machine
Commit(r, op) ==
  /\ now' = r.now
  /\ wifiConnected' = r.wifiConnected
  /\ fileExists' = r.fileExists
  /\ dataFile' = r.dataFile
  /\ spiffsAvailable' = r.spiffsAvailable
  /\ storedDetections' = r.storedDetections
  /\ serverAvailable' = r.serverAvailable
  /\ lastServerCheckTime' = r.lastServerCheckTime
  /\ currentUrlIndex' = r.currentUrlIndex
  /\ buffer_pos' = r.buffer_pos
  /\ lastWifiCheck' = r.lastWifiCheck
  /\ lastOkCheck' = r.lastOkCheck
  /\ band' = band
  /\ ev' = [r.ev EXCEPT !.op = op]

\* the globals as their initialisers set them, and the log of the previous run
Boot ==
  /\ pc = "boot"
  /\ now = 0
  /\ iter = 0
  /\ wifiConnected = FALSE
  /\ \E k \in PriorCounts : fileExists = (k > 0) /\ dataFile = PriorLog(k)
  /\ spiffsAvailable = FALSE
  /\ storedDetections = 0
  /\ serverAvailable = FALSE
  /\ lastServerCheckTime = 0
  /\ currentUrlIndex = 0
  /\ buffer_pos = 0
  /\ lastWifiCheck = 0
  /\ lastOkCheck = -1
  /\ ev = NoEvents

Init == Boot /\ band = <<TARGET_FREQ_MIN, TARGET_FREQ_MAX>>

Setup ==
  /\ pc = "boot"
  /\ \E env \in SetupEnvs : Commit(setup(G, env), "setup")
  /\ pc' = "run"
  /\ UNCHANGED iter

Loop ==
  /\ pc = "run"
  /\ iter < MaxIter
  /\ \E env \in LoopEnvs : Commit(loop(G, env), "loop")
  /\ iter' = iter + 1
  /\ UNCHANGED pc

Next == Setup \/ Loop

Spec == Init /\ [][Next]_vars

\* the collector serving a request of any client: the values a JSON body can
\* carry in a field
JsValues ==
  {JsUndefined, [type |-> "null", n |-> 0], JsNumber(0),
   JsNumber(TARGET_FREQ_MIN), [type |-> "string", n |-> 0],
   [type |-> "string", n |-> 5], [type |-> "boolean", n |-> 0],
   [type |-> "boolean", n |-> 1]}

PostRequest ==
  /\ pc = "boot"
  /\ \E f \in JsValues, m \in JsValues, t \in {JsUndefined, JsNumber(SetupDelay)},
        throws \in BOOLEAN :
       ev' = [NoEvents EXCEPT
                !.op = "post",
                !.served = <<[kind |-> "post", frequency |-> f, magnitude |-> m,
                              timestamp |-> t, throws |-> throws,
                              reply |-> PostDetections(
                                          [frequency |-> f, magnitude |-> m,
                                           timestamp |-> t], throws)]>>]
  /\ UNCHANGED <<pc, now, iter, wifiConnected, fileExists, dataFile,
                 spiffsAvailable, storedDetections, serverAvailable,
                 lastServerCheckTime, currentUrlIndex, buffer_pos,
                 lastWifiCheck, lastOkCheck, band>>

HealthRequest ==
  /\ pc = "boot"
  /\ ev' = [NoEvents EXCEPT
              !.op = "health",
              !.served = <<[kind |-> "health", frequency |-> JsUndefined,
                            magnitude |-> JsUndefined, timestamp |-> JsUndefined,
                            throws |-> FALSE,
                            reply |-> [status |-> GetHealth.status,
                                       required |-> <<>>, detection |-> <<>>]]>>]
  /\ UNCHANGED <<pc, now, iter, wifiConnected, fileExists, dataFile,
                 spiffsAvailable, storedDetections, serverAvailable,
                 lastServerCheckTime, currentUrlIndex, buffer_pos,
                 lastWifiCheck, lastOkCheck, band>>

NextCollector == Setup \/ Loop \/ PostRequest \/ HealthRequest

SpecCollector == Init /\ [][NextCollector]_vars

\* builds with other target bands: the band of the sketch, and bands whose
\* upper edge falls on bin SAMPLES/2 - 1, on bin SAMPLES/2 and above it
Bands == {<<TARGET_FREQ_MIN, TARGET_FREQ_MAX>>, <<22000, 22029>>,
          <<22000, 22050>>, <<22000, 22100>>}

InitBand == Boot /\ band \in Bands

SpecBand == InitBand /\ [][Next]_vars

\* a harness that, after any run, calls trimDataFile directly, as the queue's
\* own operation
TrimCall ==
  /\ pc = "run"
  /\ Commit(trimDataFile(G, "ok"), "trim")
  /\ pc' = "trimmed"
  /\ UNCHANGED iter

NextTrim == Setup \/ Loop \/ TrimCall

SpecTrim == Init /\ [][NextTrim]_vars

\* a harness that, once the storage has failed to initialise, calls the three
\* queue operations directly: storeDetectionLocally, trimDataFile, sendStoredData
StoreCall ==
  /\ pc = "run" /\ ~spiffsAvailable
  /\ \E io \in Ios :
       Commit(storeDetectionLocally(G, minBin * SAMPLING_FREQ, SendThreshold, io),
              "store")
  /\ pc' = "stored"
  /\ UNCHANGED iter

TrimDisabled ==
  /\ pc = "run" /\ ~spiffsAvailable
  /\ Commit(trimDataFile(G, "ok"), "trim")
  /\ pc' = "trimmed"
  /\ UNCHANGED iter

DrainCall ==
  /\ pc = "run" /\ ~spiffsAvailable
  /\ \E pat \in Patterns : Commit(sendStoredData(G, pat), "drain")
  /\ pc' = "drained"
  /\ UNCHANGED iter

NextQueue == Setup \/ Loop \/ StoreCall \/ TrimDisabled \/ DrainCall

SpecQueue == Init /\ [][NextQueue]_vars

\* the environment from the moment it has recovered: the link is up whenever
\* WiFi.status() is read, the configured endpoint answers the health GET, every
\* POST gets a positive response code, every i2s_read succeeds and every
\* analysed window carries a detection
GoodEvents(v) ==
  /\ v.linkRead => (wifiConnected' /\ ~v.reconnect)
  /\ v.probes # <<>> => v.probes[1].code > 0
  /\ \A n \in DOMAIN v.posts : v.posts[n].code > 0
  /\ \A n \in DOMAIN v.reads : v.reads[n].ok
  /\ v.window => v.delivered # <<>>

\* while iterations are left, an iteration in the recovered environment can
\* follow any iteration
GoodLoopGuard == pc \in {"run", "good"} /\ iter < BadIters + GoodIters

\* an iteration of loop() in the recovered environment; pc = "good" from the
\* first such iteration on, and only such iterations follow
GoodLoop ==
  /\ GoodLoopGuard
  /\ \E env \in LoopEnvs : Commit(loop(G, env), "loop")
  /\ GoodEvents(ev')
  /\ iter' = iter + 1
  /\ pc' = "good"

\* an iteration of loop() before the recovery, in any environment
BadLoop == iter < BadIters /\ Loop

NextLive == Setup \/ BadLoop \/ GoodLoop

\* the Arduino core calls loop() again and again, so in the recovered
\* environment the next iteration always comes: weak fairness of GoodLoop.
\* GoodLoop is enabled exactly when its guard GoodLoopGuard holds (a recovered
\* environment can answer every call), and the steps of NextLive that lead to
\* pc = "good" are the GoodLoop steps, so WF_vars(GoodLoop) is written with the
\* guard for ENABLED <<GoodLoop>>_vars and GoodStep for <<GoodLoop>>_vars
GoodStep == pc' = "good" /\ iter' = iter + 1
Fairness == []<>(~GoodLoopGuard) \/ []<><<GoodStep>>_vars

SpecLive == Init /\ [][NextLive]_vars /\ Fairness

\* ------------------------------------------------------------------- claims
Min(a, b) == IF a < b THEN a ELSE b
Last(q) == q[Len(q)]
Delivered == ev.delivered # <<>>
\* the line storeDetectionLocally writes for the detection of this call
DetectionLine ==
  DataLine(ev.delivered[1].frequency, ev.delivered[1].magnitude, ev.delivered[1].now)
AllProbesFailed == \A n \in DOMAIN ev.probes : ev.probes[n].code <= 0
\* the call handed its detection to storeDetectionLocally, once
HandedToQueue == Len(ev.stores) = 1 /\ ev.stores[1].line = DetectionLine
Written == spiffsAvailable /\ ev.stores # <<>> /\ ev.stores[1].io = "ok"
IsNewestEntry(line) ==
  fileExists /\ DataEntries(dataFile) # <<>> /\ Last(DataEntries(dataFile)) = line
NonSuccessStatus(code) == code > 0 /\ ~(code >= 200 /\ code < 300)

\* C1 (as written): deliver with the link present and serverAvailable = false
\* appends the detection, the count grows by exactly 1, and no request at
\* all (health GET or POST) is issued during the call.
C1_Original ==
  (Delivered /\ ev.delivered[1].link /\ ~ev.delivered[1].available) =>
    /\ ev.probes = <<>>
    /\ ev.posts = <<>>
    /\ DataEntries(dataFile) = Append(DataEntries(ev.delivered[1].file), DetectionLine)
    /\ storedDetections = ev.delivered[1].count + 1

\* C1 (amended): deliver with the link present and serverAvailable = false
\* runs a fresh probe (health GETs); when no endpoint answers it, the
\* detection is handed to the queue and no POST is issued, and with storage
\* available and the write succeeding the detection is the newest entry of
\* the log and the count is min(count + 1, maxStoredDetections).
C1_DeliverUnavailable ==
  (Delivered /\ ev.delivered[1].link /\ ~ev.delivered[1].available) =>
    /\ ev.probes # <<>>
    /\ AllProbesFailed =>
         /\ ev.posts = <<>>
         /\ HandedToQueue
         /\ Written =>
              /\ IsNewestEntry(DetectionLine)
              /\ storedDetections =
                   Min(ev.delivered[1].count + 1, maxStoredDetections)

C1_Witness ==
  /\ Delivered /\ ev.delivered[1].link /\ ~ev.delivered[1].available
  /\ AllProbesFailed /\ Len(ev.probes) = numBackendUrls
  /\ ev.posts = <<>> /\ Written /\ IsNewestEntry(DetectionLine)
  /\ storedDetections = ev.delivered[1].count + 1

\* C2: once startup or a loop pass has completed, neither the in-memory count
\* nor the number of entries in the log file exceeds maxStoredDetections.
C2_QueueBound ==
  pc = "run" =>
    /\ storedDetections <= maxStoredDetections
    /\ Len(DataEntries(dataFile)) <= maxStoredDetections

\* C3: a trim of a queue holding more than maxStoredDetections entries leaves
\* exactly the maxStoredDetections newest entries, in order, and sets the
\* count to maxStoredDetections.
C3_TrimKeepsNewest ==
  \A n \in DOMAIN ev.trims :
    LET before == DataEntries(ev.trims[n].before)
    IN Len(before) > maxStoredDetections =>
         /\ DataEntries(dataFile) =
              SubSeq(before, Len(before) - maxStoredDetections + 1, Len(before))
         /\ storedDetections = maxStoredDetections

\* C4: trimDataFile called while the count is at most maxStoredDetections
\* changes neither the log (entries and their order) nor the count.
C4_TrimNoOp ==
  [][(ev'.op = "trim" /\ storedDetections <= maxStoredDetections) =>
       /\ fileExists' = fileExists
       /\ dataFile' = dataFile
       /\ storedDetections' = storedDetections]_vars

\* C5: every payload a successful drain sends carries the (frequency,
\* magnitude, timestamp) of the entry it was read from, the timestamp being the
\* one stored when the entry was appended.
C5_RoundTrip ==
  \A n \in DOMAIN ev.drains :
    LET dr == ev.drains[n]
        entries == DataEntries(dr.before)
    IN (dr.successCount > 0 /\ dr.failCount = 0) =>
         \A k \in 1 .. Len(entries) :
           LET body == ev.posts[dr.first + k - 1].body
           IN /\ body.frequency = entries[k][1]
              /\ body.magnitude = entries[k][2]
              /\ body.timestamp = entries[k][3]

\* C6: a drain removes the log and resets the count to 0 exactly when every
\* queued entry was POSTed and every POST got a positive response code;
\* otherwise the log and the count are what they were before the drain.
C6_DrainAllOrNothing ==
  \A n \in DOMAIN ev.drains :
    LET dr == ev.drains[n]
        entries == DataEntries(dr.before)
        sent == SubSeq(ev.posts, dr.first, Len(ev.posts))
        allSent == /\ Len(sent) = Len(entries)
                   /\ \A k \in DOMAIN sent : sent[k].code > 0
    IN IF allSent
         THEN ~fileExists /\ dataFile = <<>> /\ storedDetections = 0
         ELSE fileExists /\ dataFile = dr.before /\ storedDetections = dr.count

C6_Witness ==
  /\ ev.drains # <<>>
  /\ ev.drains[1].successCount > 0
  /\ ev.drains[1].failCount > 0
  /\ dataFile = ev.drains[1].before
  /\ storedDetections = ev.drains[1].count

\* what a window that does not fire leaves alone: nothing is delivered, queued,
\* probed or sent, and the queue and the reachability state keep their values
NothingDone ==
  /\ ev'.delivered = <<>> /\ ev'.stores = <<>>
  /\ ev'.posts = <<>> /\ ev'.probes = <<>>
  /\ UNCHANGED <<fileExists, dataFile, storedDetections, serverAvailable,
                 lastServerCheckTime, currentUrlIndex>>

\* C7: for every analysed window, deliver is invoked only when the band peak
\* passes gate 1 (raw magnitude 1.0) and gate 2 (scaled magnitude 20000);
\* below gate 1 nothing is logged, queued or sent, and between the gates the
\* peak is logged, deliver is not invoked, and the queue and the reachability
\* state are unchanged.
C7_Gates ==
  [][ev'.window =>
       IF ev'.peak = <<>> THEN NothingDone
       ELSE LET raw == ev'.peak[1].maxMagnitude
                scaled == ev'.peak[1].scaledMagnitude
            IN /\ ev'.delivered # <<>> => (raw >= MagUnit /\ scaled >= SendThreshold)
               /\ raw < MagUnit => (~ev'.logged /\ NothingDone)
               /\ (raw >= MagUnit /\ scaled < SendThreshold) =>
                    (ev'.logged /\ NothingDone)]_vars

C7_Witness ==
  /\ ev.window /\ ev.peak # <<>>
  /\ ev.peak[1].maxMagnitude >= MagUnit
  /\ ev.peak[1].scaledMagnitude = SendThreshold - 1
  /\ ev.logged /\ ev.delivered = <<>>

\* C8: deliver without a link hands the detection to the queue (with storage
\* available and the write succeeding it is the newest entry of the log) and
\* returns without a probe and without a POST; serverAvailable,
\* lastServerCheckTime and currentUrlIndex are unchanged.
C8_NoLink ==
  [][(ev'.delivered # <<>> /\ ~ev'.delivered[1].link) =>
       /\ ev'.probes = <<>>
       /\ ev'.posts = <<>>
       /\ HandedToQueue'
       /\ Written' => IsNewestEntry(DetectionLine)'
       /\ UNCHANGED <<serverAvailable, lastServerCheckTime, currentUrlIndex>>]_vars

C8_Witness ==
  /\ Delivered /\ ~ev.delivered[1].link
  /\ HandedToQueue /\ Written /\ IsNewestEntry(DetectionLine)
  /\ storedDetections = ev.delivered[1].count + 1
  /\ ev.delivered[1].available

LivePostFailed ==
  /\ ev.posts # <<>>
  /\ ev.posts[1].kind = "live"
  /\ ev.posts[1].code <= 0

\* C9: when the live POST of deliver fails, the detection is handed to the
\* queue and serverAvailable becomes false; serverAvailable then stays false
\* until the next deliver, and a deliver that finds it false with the link up
\* runs a fresh probe, however recent the last one.
C9_FailedPost ==
  [][/\ LivePostFailed' =>
          /\ ~serverAvailable'
          /\ HandedToQueue'
          /\ Written' => IsNewestEntry(DetectionLine)'
     /\ (pc = "run" /\ ~serverAvailable /\ ev'.delivered = <<>>) => ~serverAvailable'
     /\ (~serverAvailable /\ ev'.delivered # <<>> /\ ev'.delivered[1].link) =>
          /\ ev'.probes # <<>>
          /\ lastServerCheckTime' = ev'.delivered[1].now
          /\ ev'.posts # <<>> => ev'.probes[Len(ev'.probes)].code > 0]_vars

\* a deliver that probes although the last probe, run by the deliver before
\* it, is younger than the check interval; that deliver's detection is queued
C9_Witness ==
  /\ Delivered /\ ev.delivered[1].link /\ ~ev.delivered[1].available
  /\ ev.delivered[1].lastCheck > SetupDelay
  /\ ev.delivered[1].now - ev.delivered[1].lastCheck < serverCheckInterval
  /\ ev.delivered[1].count > 0
  /\ ev.probes # <<>>
  /\ LivePostFailed /\ ~serverAvailable /\ Written /\ IsNewestEntry(DetectionLine)

\* C10: a POST answered with a non-success HTTP status is handled as a failed
\* send: in deliver the detection is queued and serverAvailable becomes
\* false, in a drain it counts as a failure.
C10_NonSuccessIsFailure ==
  /\ \A n \in DOMAIN ev.posts :
       (ev.posts[n].kind = "live" /\ NonSuccessStatus(ev.posts[n].code)) =>
         (HandedToQueue /\ ~serverAvailable)
  /\ \A n \in DOMAIN ev.drains :
       ev.drains[n].failCount >=
         Cardinality({k \in ev.drains[n].first .. Len(ev.posts) :
                        NonSuccessStatus(ev.posts[k].code)})

\* the deliver of this step had the link, so it called the probe
Probed == Delivered /\ ev.delivered[1].link

\* C11 (as written): a probe called while the last successful check is
\* younger than the check interval issues no health request.
C11_Original ==
  (/\ Probed
   /\ ev.delivered[1].lastOk >= 0
   /\ ev.delivered[1].now - ev.delivered[1].lastOk < serverCheckInterval) =>
    ev.probes = <<>>

\* C11 (amended): a probe called while serverAvailable is true and the last
\* check is younger than the check interval issues no health request and
\* returns the cached result: the call goes on to the live POST with
\* lastServerCheckTime as it was; a probe called with serverAvailable false
\* issues health requests however recent the last successful check.
C11_RateLimit ==
  Probed =>
    LET d == ev.delivered[1]
    IN /\ (d.available /\ d.now - d.lastCheck < serverCheckInterval) =>
            /\ ev.probes = <<>>
            /\ ev.posts # <<>> /\ ev.posts[1].kind = "live"
            /\ lastServerCheckTime = d.lastCheck
       /\ ~d.available => ev.probes # <<>>
       /\ d.now - d.lastCheck >= serverCheckInterval => ev.probes # <<>>

C11_Witness ==
  /\ Probed
  /\ ev.delivered[1].available
  /\ ev.delivered[1].now - ev.delivered[1].lastCheck < serverCheckInterval
  /\ ev.probes = <<>>
  /\ ev.posts # <<>>

\* the rounded value of freq * SAMPLES / SAMPLING_FREQ
RoundedBin(freq) == (2 * freq * SAMPLES + SAMPLING_FREQ) \div (2 * SAMPLING_FREQ)

\* C12: with SAMPLES = 2048, SAMPLING_FREQ = 44100 and the band
\* [17700, 18300], every analysed window gets minBin = 821 and maxBin = 848,
\* the rounded values of freq * SAMPLES / SAMPLING_FREQ, both below 1024, and
\* the band is accepted (the scan runs).
C12_Bins ==
  (ev.bins # <<>> /\ band = <<17700, 18300>>) =>
    /\ ev.bins[1].minBin = 821
    /\ ev.bins[1].maxBin = 848
    /\ ev.bins[1].minBin = RoundedBin(band[1])
    /\ ev.bins[1].maxBin = RoundedBin(band[2])
    /\ ev.bins[1].maxBin < 1024
    /\ ev.peak # <<>>

\* C13: an analysed window whose maxBin is at most SAMPLES/2 - 1 is scanned;
\* one whose maxBin is SAMPLES/2 or more is dropped with no scan, no log, no
\* deliver and no change of the queue or of the reachability state, and the
\* loop pass completes with the sample counter back at 0 for the next window.
C13_NyquistGuard ==
  [][ev'.window =>
       /\ BinOf(band[2]) <= SAMPLES \div 2 - 1 => ev'.peak # <<>>
       /\ BinOf(band[2]) >= SAMPLES \div 2 =>
            /\ ev'.peak = <<>> /\ ~ev'.logged /\ NothingDone
            /\ buffer_pos' = 0 /\ iter' = iter + 1 /\ now' > now]_vars

\* the second window of a build whose maxBin is exactly SAMPLES/2 is dropped
C13_Witness ==
  /\ BinOf(band[2]) = SAMPLES \div 2
  /\ ev.window /\ ev.peak = <<>> /\ ~ev.logged
  /\ iter = 4

\* a value JavaScript takes for true in a condition
Truthy(j) ==
  \/ j.type = "number" /\ j.n # 0
  \/ j.type = "string" /\ j.n > 0
  \/ j.type = "boolean" /\ j.n = 1

\* C14: POST /api/detections, when its handler runs without an exception,
\* answers 201 with the detection echoed when frequency and magnitude are both
\* present and truthy, and 400 with required = ["frequency", "magnitude"] when
\* either is missing or falsy (0 included); GET /api/health answers 200.
C14_Collector ==
  \A n \in DOMAIN ev.served :
    LET r == ev.served[n]
    IN /\ (r.kind = "post" /\ ~r.throws /\ Truthy(r.frequency) /\ Truthy(r.magnitude)) =>
            /\ r.reply.status = 201
            /\ Len(r.reply.detection) = 3
            /\ r.reply.detection[1] = r.frequency
            /\ r.reply.detection[2] = r.magnitude
       /\ (r.kind = "post" /\ ~r.throws /\ ~(Truthy(r.frequency) /\ Truthy(r.magnitude))) =>
            /\ r.reply.status = 400
            /\ r.reply.required = <<"frequency", "magnitude">>
       /\ r.kind = "health" => r.reply.status = 200

\* a POST whose frequency is the number 0 is answered 400
C14_Witness ==
  /\ ev.served # <<>>
  /\ ev.served[1].kind = "post" /\ ~ev.served[1].throws
  /\ ev.served[1].frequency = [type |-> "number", n |-> 0]
  /\ Truthy(ev.served[1].magnitude)
  /\ ev.served[1].reply.status = 400

\* an endpoint answered the probe of this step
ProbeConfirmed == ev.probes # <<>> /\ Last(ev.probes).code > 0
LivePostSucceeded ==
  /\ ev.posts # <<>>
  /\ ev.posts[1].kind = "live"
  /\ ev.posts[1].code > 0

\* C15 (as written): whenever a probe confirms reachability while the queue is
\* non-empty, a drain is attempted, at startup and in deliver.
C15_Original ==
  /\ (ev.op = "setup" /\ ProbeConfirmed /\ storedDetections > 0) => ev.drains # <<>>
  /\ (Delivered /\ ProbeConfirmed /\ ev.delivered[1].count > 0) => ev.drains # <<>>

\* C15 (amended): at startup a probe that confirms reachability with a
\* non-empty queue is followed by a drain; in deliver the drain is attempted,
\* within the same call and after the live POST, exactly when the live POST
\* gets a positive response code and the queue is non-empty: a probe that
\* confirmed reachability followed by a failed live POST starts no drain.
C15_Drain ==
  /\ (ev.op = "setup" /\ ProbeConfirmed /\ storedDetections > 0) => ev.drains # <<>>
  /\ Delivered =>
       IF LivePostSucceeded /\ ev.delivered[1].count > 0
         THEN /\ Len(ev.drains) = 1
              /\ ev.drains[1].first = 2
              /\ ev.drains[1].before = ev.delivered[1].file
         ELSE ev.drains = <<>>

C15_Witness ==
  /\ Delivered /\ ProbeConfirmed /\ LivePostSucceeded
  /\ ev.delivered[1].count > 0
  /\ ev.drains # <<>>
  /\ Len(ev.posts) > 1

\* the POSTs of drain dr that failed, as the sketch counts failures
FailedAt(dr, k) == ev.posts[dr.first + k - 1].code <= 0
\* four failures in a row among the first n POSTs of drain dr
FourInARow(dr, n) ==
  \E k \in 1 .. (n - MaxDrainFails) : \A j \in k .. (k + MaxDrainFails) : FailedAt(dr, j)

\* C16: a drain stops early only after more than 3 consecutive failures: a
\* drain whose POSTs never fail 4 times in a row attempts every queued entry.
C16_ConsecutiveStop ==
  \A n \in DOMAIN ev.drains :
    LET dr == ev.drains[n]
        sent == Len(ev.posts) - dr.first + 1
    IN ~FourInARow(dr, sent) => sent = Len(DataEntries(dr.before))

\* C17: a probe that does not answer from the cache contacts the endpoints in
\* list order, 0, 1, 2, ..., and stops at the first that answers with a
\* positive code: it then returns true with currentUrlIndex the index of that
\* endpoint, the lowest that answered, and contacts none after it; if none of
\* the numBackendUrls endpoints answers it returns false and leaves
\* currentUrlIndex as it was.
C17_ProbeOrder ==
  \A n \in DOMAIN ev.checks :
    LET c == ev.checks[n]
        last == Len(ev.probes)
    IN IF c.cached THEN ev.probes = <<>>
       ELSE /\ last >= 1
            /\ \A k \in 1 .. last : ev.probes[k].i = k - 1
            /\ \A k \in 1 .. (last - 1) : ev.probes[k].code <= 0
            /\ IF ev.probes[last].code > 0
                 THEN c.available /\ c.index = ev.probes[last].i
                 ELSE /\ last = numBackendUrls
                      /\ ~c.available
                      /\ c.index = c.was

\* endpoint 0 does not answer and endpoint 1 does: two endpoints contacted,
\* currentUrlIndex moves from 0 to 1
C17_Witness ==
  /\ Len(ev.checks) = 1 /\ ~ev.checks[1].cached
  /\ Len(ev.probes) = 2
  /\ ev.probes[1].code <= 0 /\ ev.probes[2].code > 0
  /\ ev.checks[1].available /\ ev.checks[1].index = 1 /\ ev.checks[1].was = 0

\* the values buffer_pos takes between calls: 0 or a multiple of the block
\* size below the window size
BlockMultiples == {k * BUFFER_SIZE : k \in 0 .. ((SAMPLES \div BUFFER_SIZE) - 1)}

\* C18: each call of loop() makes one read.  The read signals "window full"
\* exactly when it succeeds and the block it adds brings the accumulated count
\* to the window size, and then buffer_pos is reset to 0; a successful read
\* that does not fill the window advances buffer_pos by one block; a failed or
\* partial read signals nothing and leaves buffer_pos unchanged.  Between
\* calls buffer_pos is 0 or a multiple of the block size below the window size.
C18_Acquisition ==
  [][ev'.op = "loop" =>
       /\ Len(ev'.reads) = 1
       /\ LET r == ev'.reads[1]
          IN /\ ev'.window = r.full
             /\ r.full = (r.ok /\ buffer_pos + BUFFER_SIZE = SAMPLES)
             /\ r.full => buffer_pos' = 0
             /\ (r.ok /\ ~r.full) => buffer_pos' = buffer_pos + BUFFER_SIZE
             /\ ~r.ok => buffer_pos' = buffer_pos
       /\ buffer_pos \in BlockMultiples
       /\ buffer_pos' \in BlockMultiples]_vars

\* the second successful read after a failed one: the window is full and the
\* counter is back at 0
C18_Witness ==
  /\ ev.op = "loop" /\ iter >= 3
  /\ ev.reads = <<[ok |-> TRUE, full |-> TRUE]>>
  /\ ev.window
  /\ buffer_pos = 0

\* C19: once the storage has failed to initialise (spiffsAvailable false after
\* setup), a call of loop() and a direct call of append, trim or drain leave
\* the file and the count as they were, and no trim or drain runs; a
\* detection whose live delivery fails is handed to the queue and dropped; and
\* loop() runs to its final delay, so the next iteration follows.
C19_QueueDisabled ==
  [][(pc = "run" /\ ~spiffsAvailable) =>
       /\ ~spiffsAvailable'
       /\ fileExists' = fileExists
       /\ dataFile' = dataFile
       /\ storedDetections' = storedDetections
       /\ ev'.trims = <<>>
       /\ ev'.drains = <<>>
       /\ ev'.op = "loop" => (iter' = iter + 1 /\ now' >= now + LoopDelay)]_vars

\* in queue-disabled mode a live POST failed, the detection was handed to
\* storeDetectionLocally, and nothing was stored
C19_Witness ==
  /\ ev.op = "loop" /\ ~spiffsAvailable
  /\ Delivered /\ ev.delivered[1].link
  /\ Len(ev.posts) = 1 /\ ev.posts[1].code <= 0
  /\ HandedToQueue
  /\ storedDetections = 0
  /\ ~IsNewestEntry(DetectionLine)

\* an index of an element of backendUrls[]
ValidIndex(i) == i >= 0 /\ i < backendUrlsLen

\* C20: currentUrlIndex is always an index of an element of backendUrls[], and
\* no health GET of a probe is built from an index outside the array.
C20_ValidIndex ==
  /\ ValidIndex(currentUrlIndex)
  /\ \A n \in DOMAIN ev.probes : ValidIndex(ev.probes[n].i)

\* how many lines of a log are the line given
Occurs(lines, line) == Cardinality({k \in DOMAIN lines : lines[k] = line})

\* the storage is mounted and every file write of the call went through
WritesSucceed ==
  spiffsAvailable /\ \A n \in DOMAIN ev.stores : ev.stores[n].io = "ok"

\* C21: with the storage available and file writes succeeding, a deliver ends
\* with its detection in exactly one place: either the live POST got a
\* positive response code and the detection was not handed to the queue and is
\* not in the log, or no live POST got a positive code and the detection was
\* handed to the queue once and is in the log once, as its newest entry.
C21_ExactlyOnePlace ==
  (Delivered /\ WritesSucceed) =>
    IF LivePostSucceeded
      THEN /\ ev.stores = <<>>
           /\ Occurs(dataFile, DetectionLine) = 0
      ELSE /\ HandedToQueue
           /\ Occurs(dataFile, DetectionLine) = 1
           /\ IsNewestEntry(DetectionLine)

\* both places within four iterations: a detection accepted by the live POST
\* while the log holds entries that do not include it
C21_Witness ==
  /\ Delivered /\ WritesSucceed /\ LivePostSucceeded
  /\ ev.stores = <<>>
  /\ ev.drains # <<>> /\ fileExists /\ DataEntries(dataFile) # <<>>
  /\ Occurs(dataFile, DetectionLine) = 0

\* C22: once the link stays up, the collector answers every probe and every
\* POST with a positive code and detections keep being delivered, a queue
\* that is not empty eventually becomes empty (storedDetections = 0).
C22_QueueEmpties ==
  (pc = "good" /\ storedDetections > 0) ~> (storedDetections = 0)

\* in the recovered environment a deliver found entries in the queue, its
\* live POST was accepted, the drain ran and the queue is empty
C22_Witness ==
  /\ pc = "good"
  /\ Delivered /\ ev.delivered[1].count > 0
  /\ LivePostSucceeded
  /\ ev.drains # <<>>
  /\ ~fileExists /\ storedDetections = 0

\* the recovered environment with entries still queued
C22_Pending == pc = "good" /\ storedDetections > 0 /\ ev.delivered = <<>>

====
